---- MODULE Spec2Model ----
(***************************************************************************)
(* Model of the video-processing core of LONG_VIDEO_AUTOMATION:            *)
(*   - MemoryManager            (src/src/utils/memoryManager.ts)           *)
(*   - VideoProcessor           (src/src/services/ttsService.ts)           *)
(*   - VideoProcessingService   (src/src/services/videoProcessingService.ts)*)
(* Sizes and amounts are counted in GiB.  Every await of the TypeScript    *)
(* code is a point where another job's continuation or a cancelJob call    *)
(* may run; the code between two awaits is one atomic action.              *)
(***************************************************************************)
EXTENDS Integers, Sequences, FiniteSets, TLC

\* ------------------------------------------------------------------ bounds
MaxJobs == 2
MaxOps == 3
MaxAmount == 3
MaxUsage == 6
MaxRenderJobs == 2
MaxClock == 2

\* maxConcurrentJobs of the configuration: below MaxJobs, so that the jobs
\* modelled can exceed it
maxConcurrentJobs == 1

\* ------------------------------------------------- configuration (GiB units)
memoryLimit == 2
maxFileSize == 5
hasGemini == TRUE

Jobs == 1..MaxJobs
OpIds == 1..MaxOps
Amounts == 0..MaxAmount

supportedFormats == {"mp4", "avi", "mov", "webm", "mkv"}
supportedVideoExtensions == {"mp4", "avi", "mov", "webm", "mkv"}
Signatures == {"mp4", "avi", "mov", "webm"}
Absent == -1

VARIABLES
  currentUsage,     \* MemoryManager.currentUsage
  reservedMemory,   \* MemoryManager.reservedMemory : operation id -> amount
  lastOp,           \* the last MemoryManager call made directly, with the ledger before it
  pc,               \* per job: where its processVideo call is suspended
  status,           \* job.status ("none": no such job in the map)
  progress,         \* job.progress
  jobError,         \* job.error
  file,             \* the source artifact behind job.inputPath
  options,          \* job.options (the caller's options)
  useAI,            \* the useAIAnalysis argument
  enhancedOptions,  \* local of VideoProcessingService.processVideo
  memCheck,         \* outcome of the pending checkAvailableMemory promise
  step,             \* loop counter of simulateVideoProcessing
  result,           \* ProcessingResult of VideoProcessor.processVideo
  events,           \* per job: the events emitted for it, in order
  analyzerCalled,   \* per job: geminiAnalyzer.analyzeVideo was invoked
  encoderCalled,    \* per job: executeVideoProcessing was invoked
  cancelRequested,  \* per job: cancelJob returned true
  enrichment,       \* per job: how the AI step of processVideo went, and the
                    \* recommendations it got (local `analysis`)
  applied,          \* the last direct application of a pure function, with its result
  now,              \* the clock read by new Date() and Date.now()
  createdAt,        \* job.createdAt (job.startedAt is taken in the same tick)
  completedAt,      \* job.completedAt
  jobs,             \* VideoProcessingService.jobs: the ids in the map (kept in
                    \* insertion order, which is the order of the ids)
  returned,         \* per job: what VideoProcessingService.processVideo returned
  lastCall,         \* the last query or request answered, with its answer
  renderJobs,       \* render server: renderJobs map, job id -> status and progress
  renderPc,         \* render server: where processRenderJob is suspended
  broadcasts        \* render server: per job, the message types broadcast for it

ledgerVars == <<currentUsage, reservedMemory>>
jobVars == <<pc, status, progress, jobError, file, options, useAI, enhancedOptions,
             memCheck, step, result, events, analyzerCalled, encoderCalled,
             cancelRequested, enrichment, createdAt, completedAt, jobs, returned>>
renderVars == <<renderJobs, renderPc, broadcasts>>
vars == <<currentUsage, reservedMemory, lastOp, pc, status, progress, jobError, file,
          options, useAI, enhancedOptions, memCheck, step, result, events,
          analyzerCalled, encoderCalled, cancelRequested, enrichment, applied,
          now, createdAt, completedAt, jobs, returned, lastCall, renderJobs, renderPc,
          broadcasts>>

\* ============================================================ MemoryManager
EmptyMap == [i \in {} |-> 0]

RECURSIVE SumOver(_, _)
SumOver(f, S) ==
  IF S = {} THEN 0
  ELSE LET x == CHOOSE y \in S : TRUE IN f[x] + SumOver(f, S \ {x})

SumReserved(m) == SumOver(m, DOMAIN m)

\* Map.set(key, value)
MapSet(m, k, v) == [i \in (DOMAIN m) \cup {k} |-> IF i = k THEN v ELSE m[i]]
\* Map.delete(key)
MapDelete(m, k) == [i \in (DOMAIN m) \ {k} |-> m[i]]

\* checkAvailableMemory with `>=` for `>`: the last free byte is refused
CheckAvailableMemoryOff(usage, requiredMemory) ==
  IF requiredMemory >= memoryLimit - usage THEN "Insufficient memory" ELSE "ok"

\* checkAvailableMemory: throws exactly when requiredMemory > availableMemory
CheckAvailableMemory(usage, requiredMemory) ==
  LET availableMemory == memoryLimit - usage
  IN IF requiredMemory > availableMemory THEN "Insufficient memory" ELSE "ok"

NoOp == [op |-> "none", id |-> 0, amount |-> 0, outcome |-> "ok",
         preUsage |-> 0, preReserved |-> EmptyMap]

Call(op, id, amount, outcome) ==
  [op |-> op, id |-> id, amount |-> amount, outcome |-> outcome,
   preUsage |-> currentUsage, preReserved |-> reservedMemory]

\* a direct call of checkAvailableMemory(requiredMemory)
DoCheckAvailableMemory(requiredMemory) ==
  /\ lastOp' = Call("check", 0, requiredMemory,
                    CheckAvailableMemory(currentUsage, requiredMemory))
  /\ UNCHANGED ledgerVars
  /\ UNCHANGED <<jobVars, applied, now, lastCall, renderVars>>

\* reserveMemory(operationId, amount)
ReserveMemory(operationId, amount) ==
  /\ currentUsage + amount <= MaxUsage
  /\ reservedMemory' = MapSet(reservedMemory, operationId, amount)
  /\ currentUsage' = currentUsage + amount
  /\ lastOp' = Call("reserve", operationId, amount, "ok")
  /\ UNCHANGED <<jobVars, applied, now, lastCall, renderVars>>

\* releaseMemory without its reservedMemory.delete(operationId)
ReleaseMemoryKeepEntry(operationId) ==
  /\ IF operationId \in DOMAIN reservedMemory /\ reservedMemory[operationId] # 0
       THEN /\ currentUsage' = currentUsage - reservedMemory[operationId]
            /\ UNCHANGED reservedMemory
       ELSE UNCHANGED ledgerVars
  /\ lastOp' = Call("release", operationId, 0, "ok")
  /\ UNCHANGED <<jobVars, applied, now, lastCall, renderVars>>

\* releaseMemory(operationId): `if (amount)` is false for a missing entry
\* (undefined) and for an entry of amount 0
ReleaseMemory(operationId) ==
  /\ IF operationId \in DOMAIN reservedMemory /\ reservedMemory[operationId] # 0
       THEN /\ currentUsage' = currentUsage - reservedMemory[operationId]
            /\ reservedMemory' = MapDelete(reservedMemory, operationId)
       ELSE UNCHANGED ledgerVars
  /\ lastOp' = Call("release", operationId, 0, "ok")
  /\ UNCHANGED <<jobVars, applied, now, lastCall, renderVars>>

\* cleanup(): clears every reservation and zeroes the running total
CleanupLedger ==
  /\ reservedMemory' = EmptyMap
  /\ currentUsage' = 0

\* a direct call of cleanup()
Cleanup ==
  /\ CleanupLedger
  /\ lastOp' = Call("cleanup", 0, 0, "ok")
  /\ UNCHANGED <<jobVars, applied, now, lastCall, renderVars>>

\* ================================================== FileValidator (artifact)
\* A source artifact: whether it exists, its byte size (GiB), the extension of
\* its path, and the container signature its first 12 bytes carry ("none":
\* no recognised signature).
File(e, s, f, h) == [exists |-> e, size |-> s, format |-> f, header |-> h]

Files ==
  { File(TRUE, 1, "mp4", "mp4"),     \* a valid source
    File(TRUE, 3, "mp4", "mp4"),     \* valid, larger than memoryLimit
    File(FALSE, 0, "mp4", "none"),   \* no such file
    File(TRUE, 6, "mp4", "mp4"),     \* larger than maxFileSize
    File(TRUE, 1, "txt", "none"),    \* unsupported extension
    File(TRUE, 1, "mp4", "none") }   \* supported extension, unrecognised header

NoFile == File(FALSE, 0, "", "none")

isVideoFile(f) == f.format \in supportedVideoExtensions

validateFileHeader(f) == f.header \in Signatures

validateVideoFile(f) ==
  IF ~isVideoFile(f) THEN FALSE
  ELSE IF f.size = 0 THEN FALSE
  ELSE validateFileHeader(f)

\* ============================================================ VideoProcessor
validateInputFileAtLimit(f) ==
  IF ~f.exists THEN "Input file not found"
  ELSE IF f.size >= maxFileSize THEN "File size exceeds maximum limit"
  ELSE IF f.format \notin supportedFormats THEN "Unsupported video format"
  ELSE IF ~validateVideoFile(f) THEN "Invalid or corrupted video file"
  ELSE "ok"

validateInputFile(f) ==
  IF ~f.exists THEN "Input file not found"
  ELSE IF f.size > maxFileSize THEN "File size exceeds maximum limit"
  ELSE IF f.format \notin supportedFormats THEN "Unsupported video format"
  ELSE IF ~validateVideoFile(f) THEN "Invalid or corrupted video file"
  ELSE "ok"

InputValidationErrors ==
  { "Input file not found", "File size exceeds maximum limit",
    "Unsupported video format", "Invalid or corrupted video file" }

\* simulated metadata extraction: fixed technical data, size and format of the file
getVideoMetadata(f) ==
  [duration |-> 120, width |-> 1920, height |-> 1080, frameRate |-> 30,
   bitrate |-> 5000000, fileSize |-> f.size, format |-> f.format]

Options(fmt, q, w, h, b, fr) ==
  [outputFormat |-> fmt, quality |-> q, width |-> w, height |-> h,
   bitrate |-> b, frameRate |-> fr]

\* JavaScript truthiness of an optional number: present and not 0
Truthy(n) == n # Absent /\ n # 0

validateProcessingOptionsAtLimit(o, md) ==
  IF o.outputFormat \notin supportedFormats THEN "Unsupported output format"
  ELSE IF Truthy(o.width) /\ o.width >= md.width * 2
    THEN "Output width cannot exceed 2x input width"
  ELSE IF Truthy(o.height) /\ o.height > md.height * 2
    THEN "Output height cannot exceed 2x input height"
  ELSE IF Truthy(o.bitrate) /\ o.bitrate > 50000000
    THEN "Bitrate exceeds maximum allowed value"
  ELSE IF Truthy(o.frameRate) /\ o.frameRate > 120
    THEN "Frame rate exceeds maximum allowed value"
  ELSE "ok"

validateProcessingOptions(o, md) ==
  IF o.outputFormat \notin supportedFormats THEN "Unsupported output format"
  ELSE IF Truthy(o.width) /\ o.width > md.width * 2
    THEN "Output width cannot exceed 2x input width"
  ELSE IF Truthy(o.height) /\ o.height > md.height * 2
    THEN "Output height cannot exceed 2x input height"
  ELSE IF Truthy(o.bitrate) /\ o.bitrate > 50000000
    THEN "Bitrate exceeds maximum allowed value"
  ELSE IF Truthy(o.frameRate) /\ o.frameRate > 120
    THEN "Frame rate exceeds maximum allowed value"
  ELSE "ok"

Qualities == {"low", "medium", "high", "ultra"}

Max(a, b) == IF a >= b THEN a ELSE b

Min(a, b) == IF a <= b THEN a ELSE b

qualityMultipliersNoUltra(quality) ==
  CASE quality = "low" -> 1
    [] quality = "medium" -> 2
    [] quality = "high" -> 3
    [] OTHER -> 2

\* qualityMultipliers[quality] || 1.0, in halves (0.5, 1.0, 1.5, 2.0)
qualityMultipliers(quality) ==
  CASE quality = "low" -> 1
    [] quality = "medium" -> 2
    [] quality = "high" -> 3
    [] quality = "ultra" -> 4
    [] OTHER -> 2

\* Math.floor((width * height / 1000) * multiplier); the multiplier is a
\* number of halves, so the product is pixelCount * halves / 2000
calculateOptimalBitrate(width, height, quality) ==
  (width * height * qualityMultipliers(quality)) \div 2000

\* A ratio of bitrates is a fraction num/den with den > 0.
Ratio(n, d) == [num |-> n, den |-> d]

\* qualityAdjustments[quality] || 0.6, in tenths (0.3, 0.6, 0.8, 1.0)
qualityAdjustments(quality) ==
  CASE quality = "low" -> 3
    [] quality = "medium" -> 6
    [] quality = "high" -> 8
    [] quality = "ultra" -> 10
    [] OTHER -> 6

\* (outputBitrate / inputBitrate) * adjustment
calculateCompressionRatio(quality, outputBitrate, inputBitrate) ==
  Ratio(outputBitrate * qualityAdjustments(quality), inputBitrate * 10)

baseScoresSwapped(quality) ==
  CASE quality = "low" -> 60
    [] quality = "medium" -> 85
    [] quality = "high" -> 75
    [] quality = "ultra" -> 95
    [] OTHER -> 75

\* baseScores[quality] || 75
baseScores(quality) ==
  CASE quality = "low" -> 60
    [] quality = "medium" -> 75
    [] quality = "high" -> 85
    [] quality = "ultra" -> 95
    [] OTHER -> 75

\* the largest divisor of 20 that divides d
Gcd20(d) == CHOOSE g \in {1, 2, 4, 5, 10, 20} :
              /\ d % g = 0
              /\ \A k \in {1, 2, 4, 5, 10, 20} : d % k = 0 => k <= g

\* Math.max(0, Math.min(100, baseScore - Math.max(0, (1 - ratio) * 20))),
\* computed exactly as a fraction: (1 - num/den) * 20 is
\* (20/g) * (den - num) over den/g, g the common divisor of 20 and den
calculateQualityScore(quality, compressionRatio) ==
  LET g == Gcd20(compressionRatio.den)
      d == compressionRatio.den \div g
      compressionPenalty ==
        Max(0, (20 \div g) * (compressionRatio.den - compressionRatio.num))
  IN  Ratio(Max(0, Min(100 * d, baseScores(quality) * d - compressionPenalty)), d)

\* options.x || fallback: the option when it is present and not 0
OrElse(x, fallback) == IF Truthy(x) THEN x ELSE fallback

calculateProcessingParametersOfLedger(o, md) ==
  LET width == OrElse(o.width, md.width)
      height == OrElse(o.height, md.height)
      bitrate == OrElse(o.bitrate,
                        calculateOptimalBitrate(width, height, o.quality) + currentUsage)
      frameRate == OrElse(o.frameRate, md.frameRate)
      compressionRatio == calculateCompressionRatio(o.quality, bitrate, md.bitrate)
  IN  [width |-> width, height |-> height, bitrate |-> bitrate,
       frameRate |-> frameRate, compressionRatio |-> compressionRatio,
       qualityScore |-> calculateQualityScore(o.quality, compressionRatio)]

calculateProcessingParameters(o, md) ==
  LET width == OrElse(o.width, md.width)
      height == OrElse(o.height, md.height)
      bitrate == OrElse(o.bitrate, calculateOptimalBitrate(width, height, o.quality))
      frameRate == OrElse(o.frameRate, md.frameRate)
      compressionRatio == calculateCompressionRatio(o.quality, bitrate, md.bitrate)
  IN  [width |-> width, height |-> height, bitrate |-> bitrate,
       frameRate |-> frameRate, compressionRatio |-> compressionRatio,
       qualityScore |-> calculateQualityScore(o.quality, compressionRatio)]

OptionValidationErrors ==
  { "Unsupported output format", "Output width cannot exceed 2x input width",
    "Output height cannot exceed 2x input height",
    "Bitrate exceeds maximum allowed value",
    "Frame rate exceeds maximum allowed value" }

totalSteps == 10

\* ==================================================== VideoProcessingService
OptionsSet ==
  { Options("mp4", "medium", Absent, Absent, Absent, Absent),
    Options("invalid", "medium", Absent, Absent, Absent, Absent) }

NoOptions == Options("", "", Absent, Absent, Absent, Absent)

\* What analyzeVideo gives back: it throws, or it returns recommendations
\* (generateOptimizationRecommendations: format mp4 or webm, quality low,
\* medium or high).
Analysis(ok, fmt, q) == [ok |-> ok, suggestedFormat |-> fmt, suggestedQuality |-> q]

AnalyzerOutcomes ==
  { Analysis(FALSE, "", "") } \cup
  { Analysis(TRUE, fmt, q) : fmt \in {"mp4", "webm"}, q \in {"low", "medium", "high"} }

enhanceOptionsWithAINoCopy(originalOptions, analysis) ==
  Options(IF analysis.suggestedFormat # ""
             /\ analysis.suggestedFormat # originalOptions.outputFormat
          THEN analysis.suggestedFormat ELSE originalOptions.outputFormat,
          IF analysis.suggestedQuality # ""
             /\ analysis.suggestedQuality # originalOptions.quality
          THEN analysis.suggestedQuality ELSE originalOptions.quality,
          Absent, Absent, Absent, Absent)

enhanceOptionsWithAI(originalOptions, analysis) ==
  [originalOptions EXCEPT
     !.outputFormat = IF analysis.suggestedFormat # ""
                         /\ analysis.suggestedFormat # originalOptions.outputFormat
                      THEN analysis.suggestedFormat ELSE @,
     !.quality = IF analysis.suggestedQuality # ""
                    /\ analysis.suggestedQuality # originalOptions.quality
                 THEN analysis.suggestedQuality ELSE @]

\* the AI step of processVideo: not run, caught by its catch, or completed
\* with the recommendations of the analysis
NoEnrichment == [state |-> "none", suggestedFormat |-> "", suggestedQuality |-> ""]
EnrichmentFailed == [state |-> "failed", suggestedFormat |-> "", suggestedQuality |-> ""]
Enriched(analysis) ==
  [state |-> "ok", suggestedFormat |-> analysis.suggestedFormat,
   suggestedQuality |-> analysis.suggestedQuality]

NoResult == [success |-> FALSE, error |-> "pending"]
Failure(msg) == [success |-> FALSE, error |-> msg]
Success == [success |-> TRUE, error |-> ""]

Terminal == {"completed", "failed", "cancelled"}

\* generateJobId and generateProcessingId: `job_...` and `proc_...` strings,
\* one of each per call
JobId(j) == <<"job", j>>
ProcessingId(j) == <<"proc", j>>

\* the ProcessingResult handed back to the caller of the service
NotReturned == [success |-> FALSE, processingId |-> <<"none", 0>>, error |-> "pending"]
Returned(r, id) == [success |-> r.success, processingId |-> id, error |-> r.error]

Emit(j, evs) == events' = [events EXCEPT ![j] = @ \o evs]

\* processVideo up to its first await: the job is created queued, started, and
\* either the AI branch awaits getVideoMetadata or step 2 enters
\* VideoProcessor.processVideo, which awaits inside validateInputFile.
Submit(j, f, o, ai) ==
  /\ pc[j] = "idle"
  /\ \A k \in Jobs : k < j => pc[k] # "idle"
  /\ file' = [file EXCEPT ![j] = f]
  /\ options' = [options EXCEPT ![j] = o]
  /\ useAI' = [useAI EXCEPT ![j] = ai]
  /\ enhancedOptions' = [enhancedOptions EXCEPT ![j] = o]
  /\ status' = [status EXCEPT ![j] = "processing"]
  /\ createdAt' = [createdAt EXCEPT ![j] = now]
  /\ jobs' = jobs \cup {j}
  /\ IF ai /\ hasGemini
       THEN /\ progress' = [progress EXCEPT ![j] = 10]
            /\ Emit(j, <<"jobCreated", "jobStarted", "jobProgress">>)
            /\ pc' = [pc EXCEPT ![j] = "ai_metadata"]
       ELSE /\ progress' = [progress EXCEPT ![j] = 40]
            /\ Emit(j, <<"jobCreated", "jobStarted", "jobProgress">>)
            /\ pc' = [pc EXCEPT ![j] = "validate_input"]
  /\ UNCHANGED <<ledgerVars, lastOp, applied, now, lastCall, renderVars, completedAt, returned, enrichment, jobError, memCheck, step, result,
                 analyzerCalled, encoderCalled, cancelRequested>>

\* the AI branch after `await getVideoMetadata`: getFileSize throws for a
\* missing file and the catch falls through to step 2; otherwise analyzeVideo
\* is called and awaited
AiMetadata(j) ==
  /\ pc[j] = "ai_metadata"
  /\ IF file[j].exists
       THEN /\ analyzerCalled' = [analyzerCalled EXCEPT ![j] = TRUE]
            /\ pc' = [pc EXCEPT ![j] = "ai_analyze"]
            /\ UNCHANGED <<progress, events, enrichment>>
       ELSE /\ progress' = [progress EXCEPT ![j] = 40]
            /\ Emit(j, <<"jobProgress">>)
            /\ pc' = [pc EXCEPT ![j] = "validate_input"]
            /\ enrichment' = [enrichment EXCEPT ![j] = EnrichmentFailed]
            /\ UNCHANGED analyzerCalled
  /\ UNCHANGED <<ledgerVars, lastOp, applied, now, lastCall, renderVars, completedAt, createdAt, jobs, returned, status, jobError, file, options, useAI,
                 enhancedOptions, memCheck, step, result, encoderCalled,
                 cancelRequested>>

AiAnalyzeRethrows(j, analysis) ==
  /\ pc[j] = "ai_analyze"
  /\ IF analysis.ok
       THEN /\ enhancedOptions' =
                 [enhancedOptions EXCEPT ![j] = enhanceOptionsWithAI(options[j], analysis)]
            /\ Emit(j, <<"jobProgress", "jobProgress">>)
            /\ enrichment' = [enrichment EXCEPT ![j] = Enriched(analysis)]
            /\ progress' = [progress EXCEPT ![j] = 40]
            /\ pc' = [pc EXCEPT ![j] = "validate_input"]
            /\ UNCHANGED result
       ELSE /\ UNCHANGED <<enhancedOptions, progress, events>>
            /\ enrichment' = [enrichment EXCEPT ![j] = EnrichmentFailed]
            /\ result' = [result EXCEPT ![j] = Failure("AI analysis failed")]
            /\ pc' = [pc EXCEPT ![j] = "returning"]
  /\ UNCHANGED <<ledgerVars, lastOp, applied, now, lastCall, renderVars, completedAt, createdAt, jobs, returned, status, jobError, file, options, useAI,
                 memCheck, step, analyzerCalled, encoderCalled, cancelRequested>>

\* the AI branch after `await analyzeVideo`, then step 2 up to the await
\* inside validateInputFile
AiAnalyze(j, analysis) ==
  /\ pc[j] = "ai_analyze"
  /\ IF analysis.ok
       THEN /\ enhancedOptions' =
                 [enhancedOptions EXCEPT ![j] = enhanceOptionsWithAI(options[j], analysis)]
            /\ Emit(j, <<"jobProgress", "jobProgress">>)
            /\ enrichment' = [enrichment EXCEPT ![j] = Enriched(analysis)]
       ELSE /\ UNCHANGED enhancedOptions
            /\ Emit(j, <<"jobProgress">>)
            /\ enrichment' = [enrichment EXCEPT ![j] = EnrichmentFailed]
  /\ progress' = [progress EXCEPT ![j] = 40]
  /\ pc' = [pc EXCEPT ![j] = "validate_input"]
  /\ UNCHANGED <<ledgerVars, lastOp, applied, now, lastCall, renderVars, completedAt, createdAt, jobs, returned, status, jobError, file, options, useAI,
                 memCheck, step, result, analyzerCalled, encoderCalled,
                 cancelRequested>>

\* VideoProcessor.processVideo leaves through catch and finally: the failure
\* result is built and cleanup() runs before the caller resumes
ProcessorFails(j, msg) ==
  /\ result' = [result EXCEPT ![j] = Failure(msg)]
  /\ CleanupLedger
  /\ pc' = [pc EXCEPT ![j] = "returning"]

\* step 1 of VideoProcessor.processVideo: validateInputFile
ValidateInput(j) ==
  /\ pc[j] = "validate_input"
  /\ LET v == validateInputFile(file[j])
     IN IF v = "ok"
          THEN /\ pc' = [pc EXCEPT ![j] = "metadata"]
               /\ UNCHANGED <<result, ledgerVars>>
          ELSE ProcessorFails(j, v)
  /\ UNCHANGED <<lastOp, applied, now, lastCall, renderVars, completedAt, createdAt, jobs, returned, enrichment, status, progress, jobError, file, options, useAI,
                 enhancedOptions, memCheck, step, events, analyzerCalled,
                 encoderCalled, cancelRequested>>

\* steps 2 and 3: the metadata arrives and checkAvailableMemory(fileSize) is
\* evaluated; its promise is awaited
CheckMemory(j) ==
  /\ pc[j] = "metadata"
  /\ memCheck' = [memCheck EXCEPT ![j] =
        CheckAvailableMemory(currentUsage, getVideoMetadata(file[j]).fileSize)]
  /\ pc' = [pc EXCEPT ![j] = "memory_checked"]
  /\ UNCHANGED <<ledgerVars, lastOp, applied, now, lastCall, renderVars, completedAt, createdAt, jobs, returned, enrichment, status, progress, jobError, file, options,
                 useAI, enhancedOptions, step, result, events, analyzerCalled,
                 encoderCalled, cancelRequested>>

\* the memory check's promise settles; step 4 validates the options and
\* step 5 starts executeVideoProcessing, which awaits its first timer
ValidateOptions(j) ==
  /\ pc[j] = "memory_checked"
  /\ LET v == validateProcessingOptions(enhancedOptions[j], getVideoMetadata(file[j]))
     IN IF memCheck[j] # "ok"
          THEN ProcessorFails(j, memCheck[j]) /\ UNCHANGED <<encoderCalled, step>>
          ELSE IF v # "ok"
            THEN ProcessorFails(j, v) /\ UNCHANGED <<encoderCalled, step>>
            ELSE /\ encoderCalled' = [encoderCalled EXCEPT ![j] = TRUE]
                 /\ step' = [step EXCEPT ![j] = 1]
                 /\ pc' = [pc EXCEPT ![j] = "executing"]
                 /\ UNCHANGED <<result, ledgerVars>>
  /\ memCheck' = [memCheck EXCEPT ![j] = "ok"]
  /\ UNCHANGED <<lastOp, applied, now, lastCall, renderVars, completedAt, createdAt, jobs, returned, enrichment, status, progress, jobError, file, options, useAI,
                 enhancedOptions, events, analyzerCalled, cancelRequested>>

\* one timer of simulateVideoProcessing fires; after the last one the success
\* result is built and the finally block runs cleanup()
ExecuteStep(j) ==
  /\ pc[j] = "executing"
  /\ IF step[j] < totalSteps
       THEN /\ step' = [step EXCEPT ![j] = @ + 1]
            /\ UNCHANGED <<pc, result, ledgerVars>>
       ELSE /\ step' = [step EXCEPT ![j] = 0]
            /\ result' = [result EXCEPT ![j] = Success]
            /\ CleanupLedger
            /\ pc' = [pc EXCEPT ![j] = "returning"]
  /\ UNCHANGED <<lastOp, applied, now, lastCall, renderVars, completedAt, createdAt, jobs, returned, enrichment, status, progress, jobError, file, options, useAI,
                 enhancedOptions, memCheck, events, analyzerCalled, encoderCalled,
                 cancelRequested>>

FinishResetsProgress(j) ==
  /\ pc[j] = "returning"
  /\ IF result[j].success
       THEN /\ status' = [status EXCEPT ![j] = "completed"]
            /\ progress' = [progress EXCEPT ![j] = 100]
            /\ Emit(j, <<"jobCompleted">>)
            /\ UNCHANGED jobError
       ELSE /\ status' = [status EXCEPT ![j] = "failed"]
            /\ jobError' = [jobError EXCEPT ![j] = result[j].error]
            /\ Emit(j, <<"jobFailed">>)
            /\ progress' = [progress EXCEPT ![j] = 0]
  /\ enhancedOptions' = [enhancedOptions EXCEPT ![j] = NoOptions]
  /\ enrichment' = [enrichment EXCEPT ![j] = NoEnrichment]
  /\ returned' = [returned EXCEPT ![j] = Returned(result[j], ProcessingId(j))]
  /\ completedAt' = [completedAt EXCEPT ![j] = now]
  /\ pc' = [pc EXCEPT ![j] = "done"]
  /\ UNCHANGED <<ledgerVars, lastOp, applied, now, lastCall, renderVars, createdAt, jobs, file, options, useAI, memCheck, step, result,
                 analyzerCalled, encoderCalled, cancelRequested>>

FinishKeepsStatus(j) ==
  /\ pc[j] = "returning"
  /\ IF result[j].success
       THEN /\ status' = [status EXCEPT ![j] = "completed"]
            /\ progress' = [progress EXCEPT ![j] = 100]
            /\ Emit(j, <<"jobCompleted">>)
            /\ UNCHANGED jobError
       ELSE /\ jobError' = [jobError EXCEPT ![j] = result[j].error]
            /\ Emit(j, <<"jobFailed">>)
            /\ UNCHANGED <<progress, status>>
  /\ enhancedOptions' = [enhancedOptions EXCEPT ![j] = NoOptions]
  /\ enrichment' = [enrichment EXCEPT ![j] = NoEnrichment]
  /\ returned' = [returned EXCEPT ![j] = Returned(result[j], ProcessingId(j))]
  /\ completedAt' = [completedAt EXCEPT ![j] = now]
  /\ pc' = [pc EXCEPT ![j] = "done"]
  /\ UNCHANGED <<ledgerVars, lastOp, applied, now, lastCall, renderVars, createdAt, jobs, file, options, useAI, memCheck, step, result,
                 analyzerCalled, encoderCalled, cancelRequested>>

\* `await this.processor.processVideo(...)` resumes: the job is updated with
\* the result, whatever its status is by now.  (VideoProcessor.processVideo
\* catches its own errors and returns a result, so the outer catch of the
\* service is not entered on this path.)
Finish(j) ==
  /\ pc[j] = "returning"
  /\ IF result[j].success
       THEN /\ status' = [status EXCEPT ![j] = "completed"]
            /\ progress' = [progress EXCEPT ![j] = 100]
            /\ Emit(j, <<"jobCompleted">>)
            /\ UNCHANGED jobError
       ELSE /\ status' = [status EXCEPT ![j] = "failed"]
            /\ jobError' = [jobError EXCEPT ![j] = result[j].error]
            /\ Emit(j, <<"jobFailed">>)
            /\ UNCHANGED progress
  /\ enhancedOptions' = [enhancedOptions EXCEPT ![j] = NoOptions]
  /\ enrichment' = [enrichment EXCEPT ![j] = NoEnrichment]
  /\ returned' = [returned EXCEPT ![j] = Returned(result[j], ProcessingId(j))]
  /\ completedAt' = [completedAt EXCEPT ![j] = now]
  /\ pc' = [pc EXCEPT ![j] = "done"]
  /\ UNCHANGED <<ledgerVars, lastOp, applied, now, lastCall, renderVars, createdAt, jobs, file, options, useAI, memCheck, step, result,
                 analyzerCalled, encoderCalled, cancelRequested>>

\* cancelJob(jobId) on a job whose status is 'processing' (any other call
\* returns false and changes nothing)
CancelJob(j) ==
  /\ status[j] = "processing"
  /\ status' = [status EXCEPT ![j] = "failed"]
  /\ jobError' = [jobError EXCEPT ![j] = "Cancelled by user"]
  /\ Emit(j, <<"jobCancelled">>)
  /\ cancelRequested' = [cancelRequested EXCEPT ![j] = TRUE]
  /\ completedAt' = [completedAt EXCEPT ![j] = now]
  /\ UNCHANGED <<ledgerVars, lastOp, applied, now, lastCall, renderVars, createdAt, jobs, returned, enrichment, pc, progress, file, options, useAI,
                 enhancedOptions, memCheck, step, result, analyzerCalled,
                 encoderCalled>>

\* ============================================================ specifications
NotApplied == [fn |-> "none"]

NoCall == [op |-> "none"]

\* ids of the render jobs the server may be asked to create
RenderJobIds == 1..MaxRenderJobs

\* no entry in renderJobs
NoRenderJob == [status |-> "none", progress |-> 0]

\* processRenderJob not running for the job
NotRendering == [at |-> "none", progress |-> 0]

Init ==
  /\ currentUsage = 0
  /\ reservedMemory = EmptyMap
  /\ lastOp = NoOp
  /\ pc = [j \in Jobs |-> "idle"]
  /\ status = [j \in Jobs |-> "none"]
  /\ progress = [j \in Jobs |-> 0]
  /\ jobError = [j \in Jobs |-> ""]
  /\ file = [j \in Jobs |-> NoFile]
  /\ options = [j \in Jobs |-> NoOptions]
  /\ useAI = [j \in Jobs |-> FALSE]
  /\ enhancedOptions = [j \in Jobs |-> NoOptions]
  /\ memCheck = [j \in Jobs |-> "ok"]
  /\ step = [j \in Jobs |-> 0]
  /\ result = [j \in Jobs |-> NoResult]
  /\ events = [j \in Jobs |-> <<>>]
  /\ analyzerCalled = [j \in Jobs |-> FALSE]
  /\ encoderCalled = [j \in Jobs |-> FALSE]
  /\ cancelRequested = [j \in Jobs |-> FALSE]
  /\ enrichment = [j \in Jobs |-> NoEnrichment]
  /\ applied = NotApplied
  /\ now = 0
  /\ createdAt = [j \in Jobs |-> 0]
  /\ completedAt = [j \in Jobs |-> 0]
  /\ jobs = {}
  /\ returned = [j \in Jobs |-> NotReturned]
  /\ lastCall = NoCall
  /\ renderJobs = [r \in RenderJobIds |-> NoRenderJob]
  /\ renderPc = [r \in RenderJobIds |-> NotRendering]
  /\ broadcasts = [r \in RenderJobIds |-> <<>>]

\* the service: processVideo calls and cancelJob calls, interleaved at awaits
Next ==
  \/ \E j \in Jobs, f \in Files, o \in OptionsSet, ai \in BOOLEAN : Submit(j, f, o, ai)
  \/ \E j \in Jobs : AiMetadata(j)
  \/ \E j \in Jobs, a \in AnalyzerOutcomes : AiAnalyze(j, a)
  \/ \E j \in Jobs : ValidateInput(j)
  \/ \E j \in Jobs : CheckMemory(j)
  \/ \E j \in Jobs : ValidateOptions(j)
  \/ \E j \in Jobs : ExecuteStep(j)
  \/ \E j \in Jobs : Finish(j)
  \/ \E j \in Jobs : CancelJob(j)

Spec == Init /\ [][Next]_vars

\* a MemoryManager of its own, driven by direct calls
NextMem ==
  \/ \E a \in Amounts : DoCheckAvailableMemory(a)
  \/ \E id \in OpIds, a \in Amounts : ReserveMemory(id, a)
  \/ \E id \in OpIds : ReleaseMemory(id)
  \/ Cleanup

SpecMem == Init /\ [][NextMem]_vars

\* ------------------------------------------------- one job, options at the limits
\* Options of a single processVideo call: every number absent, at its limit
\* and one above it, a width of 0, and an unknown format with a width above
\* the limit
OptionsAtLimits ==
  { Options("mp4", "medium", Absent, Absent, Absent, Absent),
    Options("invalid", "medium", Absent, Absent, Absent, Absent),
    Options("mp4", "medium", 0, Absent, Absent, Absent),
    Options("mp4", "medium", 3840, Absent, Absent, Absent),
    Options("mp4", "medium", 3841, Absent, Absent, Absent),
    Options("mp4", "medium", Absent, 2160, Absent, Absent),
    Options("mp4", "medium", Absent, 2161, Absent, Absent),
    Options("mp4", "medium", Absent, Absent, 50000000, Absent),
    Options("mp4", "medium", Absent, Absent, 50000001, Absent),
    Options("mp4", "medium", Absent, Absent, Absent, 120),
    Options("mp4", "medium", Absent, Absent, Absent, 121),
    Options("invalid", "medium", 3841, Absent, Absent, Absent) }

TheJob == 1

NextOne ==
  \/ \E f \in Files, o \in OptionsAtLimits, ai \in BOOLEAN : Submit(TheJob, f, o, ai)
  \/ AiMetadata(TheJob)
  \/ \E analysis \in AnalyzerOutcomes : AiAnalyze(TheJob, analysis)
  \/ ValidateInput(TheJob)
  \/ CheckMemory(TheJob)
  \/ ValidateOptions(TheJob)
  \/ ExecuteStep(TheJob)
  \/ Finish(TheJob)
  \/ CancelJob(TheJob)

SpecOne == Init /\ [][NextOne]_vars

\* ------------------------------------------------ the pure functions, applied
\* Input files of validateInputFile: a missing file has no size and no header
PureFiles ==
  { File(FALSE, 0, f, "none") : f \in {"mp4", "txt"} } \cup
  { File(TRUE, s, f, h) : s \in 0..(maxFileSize + 1),
                          f \in {"mp4", "mkv", "txt"}, h \in {"mp4", "none"} }

\* Options handed to calculateProcessingParameters: each number absent, 0 or set
PureOptions ==
  { Options("mp4", q, w, h, b, fr) :
      q \in Qualities, w \in {Absent, 0, 1280}, h \in {Absent, 0, 720},
      b \in {Absent, 0, 1000}, fr \in {Absent, 0, 60} }

PureWidths == {0, 1, 40, 1280, 1920, 1999}

PureHeights == {0, 1, 50, 720, 1080}

PureResolutions == PureWidths \X PureHeights

\* compression ratios in twentieths, from far below 0 to above 1
PureRatios == { Ratio(n, 20) : n \in {-2000, -1500, -1, 0, 1, 10, 19, 20, 21, 40} }

ApplyValidateInputFile(f) ==
  /\ applied' = [fn |-> "validateInputFile", file |-> f, out |-> validateInputFile(f)]
  /\ UNCHANGED <<ledgerVars, lastOp, jobVars, now, lastCall, renderVars>>

ApplyCalculateProcessingParameters(o) ==
  LET md == getVideoMetadata(File(TRUE, 1, "mp4", "mp4"))
  IN  /\ applied' = [fn |-> "calculateProcessingParameters", options |-> o,
                     metadata |-> md, out |-> calculateProcessingParameters(o, md)]
      /\ UNCHANGED <<ledgerVars, lastOp, jobVars, now, lastCall, renderVars>>

ApplyValidateVideoFile(f) ==
  /\ applied' = [fn |-> "validateVideoFile", file |-> f, out |-> validateVideoFile(f)]
  /\ UNCHANGED <<ledgerVars, lastOp, jobVars, now, lastCall, renderVars>>

\* calculateQualityScore at one compression ratio, for every tier
ApplyCalculateQualityScore(cr) ==
  /\ applied' = [fn |-> "calculateQualityScore", compressionRatio |-> cr,
                 out |-> [q \in Qualities |-> calculateQualityScore(q, cr)]]
  /\ UNCHANGED <<ledgerVars, lastOp, jobVars, now, lastCall, renderVars>>

\* calculateOptimalBitrate at two resolutions, for every tier
ApplyCalculateOptimalBitrate(a, b) ==
  /\ applied' = [fn |-> "calculateOptimalBitrate", a |-> a, b |-> b,
                 outA |-> [q \in Qualities |-> calculateOptimalBitrate(a[1], a[2], q)],
                 outB |-> [q \in Qualities |-> calculateOptimalBitrate(b[1], b[2], q)]]
  /\ UNCHANGED <<ledgerVars, lastOp, jobVars, now, lastCall, renderVars>>

NextPure ==
  \/ \E f \in PureFiles : ApplyValidateInputFile(f)
  \/ \E f \in PureFiles : ApplyValidateVideoFile(f)
  \/ \E o \in PureOptions : ApplyCalculateProcessingParameters(o)
  \/ \E cr \in PureRatios : ApplyCalculateQualityScore(cr)
  \/ \E a, b \in PureResolutions : ApplyCalculateOptimalBitrate(a, b)

SpecPure == Init /\ [][NextPure]_vars

\* ------------------------------------------------ the job map and its queries
\* the clock advances
Tick ==
  /\ now < MaxClock
  /\ now' = now + 1
  /\ UNCHANGED <<ledgerVars, lastOp, jobVars, applied, lastCall, renderVars>>

\* Array.from(jobs.values()).sort((a, b) => b.createdAt - a.createdAt): the
\* sort is stable, so jobs of one tick stay in insertion order
RECURSIVE SortNewestFirst(_, _)
SortNewestFirst(S, created) ==
  IF S = {} THEN <<>>
  ELSE LET first == CHOOSE j \in S :
                      \A k \in S : \/ created[j] > created[k]
                                    \/ (created[j] = created[k] /\ j <= k)
       IN  <<first>> \o SortNewestFirst(S \ {first}, created)

getAllJobs == SortNewestFirst(jobs, createdAt)

\* {...a, ...b}: the keys of both, b's value where both have the key
Spread(a, b) ==
  [k \in DOMAIN a \cup DOMAIN b |-> IF k \in DOMAIN b THEN b[k] ELSE a[k]]

\* VideoProcessor.getProcessingStats
processorStats ==
  [totalProcessed |-> 0, averageProcessingTime |-> Ratio(0, 1),
   successRate |-> Ratio(100, 1), memoryUsage |-> currentUsage,
   supportedFormats |-> supportedFormats]

WithStatus(st) == { j \in jobs : status[j] = st }

\* VideoProcessingService.getProcessingStats: the service's own figures, then
\* `...processorStats` spread over them
getProcessingStats ==
  LET completed == WithStatus("completed")
      failed == WithStatus("failed")
      processing == WithStatus("processing")
      durations == [j \in completed |-> completedAt[j] - createdAt[j]]
  IN  Spread([totalJobs |-> Cardinality(jobs),
              completedJobs |-> Cardinality(completed),
              failedJobs |-> Cardinality(failed),
              processingJobs |-> Cardinality(processing),
              successRate |-> IF Cardinality(jobs) > 0
                                THEN Ratio(Cardinality(completed) * 100, Cardinality(jobs))
                                ELSE Ratio(0, 1),
              averageProcessingTime |->
                IF Cardinality(completed) > 0
                  THEN Ratio(SumOver(durations, completed), Cardinality(completed))
                  ELSE Ratio(0, 1)],
             processorStats)

\* a call of getAllJobs(); the answer lists job ids, and is recorded with the
\* ids in the map at the time
GetAllJobs ==
  /\ lastCall' = [op |-> "getAllJobs", out |-> getAllJobs, tracked |-> jobs]
  /\ UNCHANGED <<ledgerVars, lastOp, jobVars, applied, now, renderVars>>

\* a call of getProcessingStats(), recorded with the counts it was made over
GetProcessingStats ==
  /\ lastCall' = [op |-> "getProcessingStats", out |-> getProcessingStats,
                  tracked |-> Cardinality(jobs),
                  completed |-> Cardinality(WithStatus("completed")),
                  failed |-> Cardinality(WithStatus("failed")),
                  processing |-> Cardinality(WithStatus("processing"))]
  /\ UNCHANGED <<ledgerVars, lastOp, jobVars, applied, now, renderVars>>

MaxAges == 0..1

CleanupOldJobsAnyStatus(maxAge) ==
  LET cutoffTime == now - maxAge
      old == { j \in jobs : createdAt[j] < cutoffTime }
  IN  /\ jobs' = jobs \ old
      /\ lastCall' = [op |-> "cleanupOldJobs", maxAge |-> maxAge, at |-> now,
                      before |-> jobs, out |-> Cardinality(old)]
      /\ UNCHANGED <<ledgerVars, lastOp, applied, now, renderVars, pc, status, progress,
                     jobError, file, options, useAI, enhancedOptions, memCheck, step,
                     result, events, analyzerCalled, encoderCalled, cancelRequested,
                     enrichment, createdAt, completedAt, returned>>

\* cleanupOldJobs(maxAge): deletes the jobs created before now - maxAge whose
\* status is not 'processing' and returns how many it deleted
CleanupOldJobs(maxAge) ==
  LET cutoffTime == now - maxAge
      old == { j \in jobs : createdAt[j] < cutoffTime /\ status[j] # "processing" }
  IN  /\ jobs' = jobs \ old
      /\ lastCall' = [op |-> "cleanupOldJobs", maxAge |-> maxAge, at |-> now,
                      before |-> jobs, out |-> Cardinality(old)]
      /\ UNCHANGED <<ledgerVars, lastOp, applied, now, renderVars, pc, status, progress,
                     jobError, file, options, useAI, enhancedOptions, memCheck, step,
                     result, events, analyzerCalled, encoderCalled, cancelRequested,
                     enrichment, createdAt, completedAt, returned>>

\* sources and options of the jobs behind the queries: a valid source and a
\* missing one, valid options, no AI analysis
RegistryFiles == { File(TRUE, 1, "mp4", "mp4"), File(FALSE, 0, "mp4", "none") }

NextRegistry ==
  \/ \E j \in Jobs, f \in RegistryFiles :
       Submit(j, f, Options("mp4", "medium", Absent, Absent, Absent, Absent), FALSE)
  \/ \E j \in Jobs : ValidateInput(j)
  \/ \E j \in Jobs : CheckMemory(j)
  \/ \E j \in Jobs : ValidateOptions(j)
  \/ \E j \in Jobs : ExecuteStep(j)
  \/ \E j \in Jobs : Finish(j)
  \/ \E j \in Jobs : CancelJob(j)
  \/ Tick
  \/ GetAllJobs
  \/ GetProcessingStats
  \/ \E maxAge \in MaxAges : CleanupOldJobs(maxAge)

SpecRegistry == Init /\ [][NextRegistry]_vars

\* ------------------------------------- the resolver between ledger and job steps
ResolverOptions ==
  { Options("mp4", "high", Absent, Absent, Absent, Absent),
    Options("mp4", "low", 1280, 720, 1000, 60) }

\* calculateProcessingParameters called with the metadata of a source; the
\* call is recorded with the ledger usage, the clock and the job map at the
\* time, and with the previous call when that had the same arguments
CallCalculateProcessingParameters(o) ==
  LET md == getVideoMetadata(File(TRUE, 1, "mp4", "mp4"))
      this == [out |-> calculateProcessingParameters(o, md),
               usage |-> currentUsage, at |-> now, jobs |-> jobs]
      same == /\ lastCall.op = "calculateProcessingParameters"
              /\ lastCall.options = o
              /\ lastCall.metadata = md
  IN  /\ lastCall' = [op |-> "calculateProcessingParameters", options |-> o,
                      metadata |-> md, this |-> this, again |-> same,
                      previous |-> IF same THEN lastCall.this ELSE this]
      /\ UNCHANGED <<ledgerVars, lastOp, jobVars, applied, now, renderVars>>

NextResolver ==
  \/ \E o \in ResolverOptions : CallCalculateProcessingParameters(o)
  \/ ReserveMemory(1, 1)
  \/ Cleanup
  \/ Tick
  \/ Submit(TheJob, File(FALSE, 0, "mp4", "none"),
            Options("mp4", "medium", Absent, Absent, Absent, Absent), FALSE)
  \/ ValidateInput(TheJob)
  \/ Finish(TheJob)

SpecResolver == Init /\ [][NextResolver]_vars

\* ------------------------------------------------------------ the render server
Broadcast(r, types) == broadcasts' = [broadcasts EXCEPT ![r] = @ \o types]

\* POST /api/render with a script: the job is stored queued and
\* processRenderJob runs up to its first timer: status processing,
\* job_started broadcast, loop variable 0
PostRender(r) ==
  /\ renderJobs[r].status = "none"
  /\ \A k \in RenderJobIds : k < r => renderJobs[k].status # "none"
  /\ renderJobs' = [renderJobs EXCEPT ![r] = [status |-> "processing", progress |-> 0]]
  /\ Broadcast(r, <<"job_started">>)
  /\ renderPc' = [renderPc EXCEPT ![r] = [at |-> "timer", progress |-> 0]]
  /\ lastCall' = [op |-> "POST", jobId |-> r, pre |-> "none", response |-> 200]
  /\ UNCHANGED <<ledgerVars, lastOp, jobVars, applied, now>>

RenderTimerNoCheck(r) ==
  /\ renderPc[r].at = "timer"
  /\ LET loopProgress == renderPc[r].progress
     IN IF loopProgress + 10 <= 100
          THEN /\ renderJobs' = [renderJobs EXCEPT ![r].progress = loopProgress]
               /\ Broadcast(r, <<"job_progress">>)
               /\ renderPc' = [renderPc EXCEPT ![r] = [at |-> "timer", progress |-> loopProgress + 10]]
          ELSE /\ renderJobs' = [renderJobs EXCEPT ![r] = [status |-> "completed", progress |-> 100]]
               /\ Broadcast(r, <<"job_progress", "job_completed">>)
               /\ renderPc' = [renderPc EXCEPT ![r] = [at |-> "webhooks", progress |-> loopProgress]]
  /\ UNCHANGED <<ledgerVars, lastOp, jobVars, applied, now, lastCall>>

\* a timer of processRenderJob's loop fires: the progress is stored and
\* broadcast, a cancelled job returns, the loop goes on to its next timer or,
\* after the last one, the job is completed, job_completed is broadcast and
\* triggerWebhooks is awaited
RenderTimer(r) ==
  /\ renderPc[r].at = "timer"
  /\ LET loopProgress == renderPc[r].progress
     IN IF renderJobs[r].status = "cancelled"
          THEN /\ renderJobs' = [renderJobs EXCEPT ![r].progress = loopProgress]
               /\ Broadcast(r, <<"job_progress">>)
               /\ renderPc' = [renderPc EXCEPT ![r] = [at |-> "done", progress |-> loopProgress]]
          ELSE IF loopProgress + 10 <= 100
            THEN /\ renderJobs' = [renderJobs EXCEPT ![r].progress = loopProgress]
                 /\ Broadcast(r, <<"job_progress">>)
                 /\ renderPc' = [renderPc EXCEPT ![r] = [at |-> "timer", progress |-> loopProgress + 10]]
            ELSE /\ renderJobs' = [renderJobs EXCEPT ![r] = [status |-> "completed", progress |-> 100]]
                 /\ Broadcast(r, <<"job_progress", "job_completed">>)
                 /\ renderPc' = [renderPc EXCEPT ![r] = [at |-> "webhooks", progress |-> loopProgress]]
  /\ UNCHANGED <<ledgerVars, lastOp, jobVars, applied, now, lastCall>>

\* triggerWebhooks settles (it catches the errors of its requests) and
\* processRenderJob returns
RenderWebhooks(r) ==
  /\ renderPc[r].at = "webhooks"
  /\ renderPc' = [renderPc EXCEPT ![r] = [at |-> "done", progress |-> @.progress]]
  /\ UNCHANGED <<ledgerVars, lastOp, jobVars, applied, now, lastCall, renderJobs,
                 broadcasts>>

\* DELETE /api/render/:jobId: 404 for an unknown job; a processing job is set
\* to cancelled and job_cancelled is broadcast; any known job is answered 200
DeleteRender(r) ==
  /\ lastCall' = [op |-> "DELETE", jobId |-> r, pre |-> renderJobs[r].status,
                  response |-> IF renderJobs[r].status = "none" THEN 404 ELSE 200]
  /\ IF renderJobs[r].status = "processing"
       THEN /\ renderJobs' = [renderJobs EXCEPT ![r].status = "cancelled"]
            /\ Broadcast(r, <<"job_cancelled">>)
       ELSE UNCHANGED <<renderJobs, broadcasts>>
  /\ UNCHANGED <<ledgerVars, lastOp, jobVars, applied, now, renderPc>>

NextRender ==
  \/ \E r \in RenderJobIds : PostRender(r)
  \/ \E r \in RenderJobIds : RenderTimer(r)
  \/ \E r \in RenderJobIds : RenderWebhooks(r)
  \/ \E r \in RenderJobIds : DeleteRender(r)

SpecRender == Init /\ [][NextRender]_vars

\* ==================================================================== claims
Processing == {j \in Jobs : status[j] = "processing"}

\* C1: once a job's status is terminal (completed, failed or cancelled) no
\* step of processVideo or cancelJob changes it again.
C1_TerminalIsFinal ==
  [][\A j \in Jobs : status[j] \in Terminal => status'[j] = status[j]]_vars

\* C2: a job for which cancelJob was accepted while it was processing ends
\* in the state cancelled, never failed and never completed.
C2_CancelEndsCancelled ==
  \A j \in Jobs : cancelRequested[j] /\ pc[j] = "done" => status[j] = "cancelled"

\* C3: at every moment at most maxConcurrentJobs jobs are in the processing
\* state (a further processVideo call leaves its job queued).
C3_ConcurrencyBound == Cardinality(Processing) <= maxConcurrentJobs

\* C4: after any sequence of MemoryManager calls the sum of the live
\* reservations is at most memoryLimit.
C4_ReservationsWithinLimit == SumReserved(reservedMemory) <= memoryLimit

\* C5: checkAvailableMemory(amount) fails with 'Insufficient memory' exactly
\* when amount > memoryLimit - currentUsage, succeeds otherwise, and leaves
\* the ledger as it was.
C5_CheckAvailableMemory ==
  lastOp.op = "check" =>
    /\ lastOp.outcome \in {"ok", "Insufficient memory"}
    /\ (lastOp.outcome = "Insufficient memory")
         <=> (lastOp.amount > memoryLimit - lastOp.preUsage)
    /\ currentUsage = lastOp.preUsage
    /\ reservedMemory = lastOp.preReserved

\* C5 witness: a check of exactly the remaining memory, with part of the
\* budget in use, has succeeded.
C5_Witness ==
  /\ lastOp.op = "check"
  /\ lastOp.preUsage > 0
  /\ lastOp.amount = memoryLimit - lastOp.preUsage
  /\ lastOp.outcome = "ok"

\* C6: reserveMemory(id, amount) for an id with no live reservation adds
\* exactly amount to the usage and records the reservation; releaseMemory(id)
\* for a live reservation subtracts exactly the recorded amount and removes
\* the reservation.
C6_ReserveReleaseExact ==
  /\ (lastOp.op = "reserve" /\ lastOp.id \notin DOMAIN lastOp.preReserved) =>
        /\ currentUsage = lastOp.preUsage + lastOp.amount
        /\ reservedMemory = MapSet(lastOp.preReserved, lastOp.id, lastOp.amount)
  /\ (lastOp.op = "release" /\ lastOp.id \in DOMAIN lastOp.preReserved) =>
        /\ currentUsage = lastOp.preUsage - lastOp.preReserved[lastOp.id]
        /\ reservedMemory = MapDelete(lastOp.preReserved, lastOp.id)

\* C7: releaseMemory(id) for an id without a live reservation changes neither
\* the usage nor the reservations, and a second releaseMemory(id) right after
\* a first changes nothing either.
C7_ReleaseUnknownIsNoOp ==
  [][ /\ (lastOp'.op = "release" /\ lastOp'.id \notin DOMAIN reservedMemory)
          => UNCHANGED ledgerVars
      /\ (lastOp.op = "release" /\ lastOp'.op = "release" /\ lastOp'.id = lastOp.id)
          => UNCHANGED ledgerVars ]_vars

\* C7 witness: an id with no reservation has been released while other
\* reservations were live.
C7_Witness ==
  /\ lastOp.op = "release"
  /\ lastOp.id \notin DOMAIN lastOp.preReserved
  /\ lastOp.preUsage > 0
  /\ currentUsage = lastOp.preUsage

\* C8: once some job is terminal, every job still processing in its
\* execution phase keeps its reservation and the usage is exactly the sum of
\* the reservations of the jobs still processing.
C8_LedgerBalanced ==
  (\E j \in Jobs : status[j] \in Terminal) =>
    /\ \A k \in Processing : pc[k] = "executing" => k \in DOMAIN reservedMemory
    /\ currentUsage = SumOver(reservedMemory, Processing \cap DOMAIN reservedMemory)

\* C9: a job in its execution phase holds a reservation of the size of its
\* source for as long as the encoder step runs.
C9_ReservationHeldWhileExecuting ==
  \A j \in Jobs : pc[j] = "executing" =>
    /\ j \in DOMAIN reservedMemory
    /\ reservedMemory[j] = getVideoMetadata(file[j]).fileSize

\* C10: a job whose input validation failed is reported failed, and neither
\* the analyzer nor the encoder was called nor memory reserved for it.
C10_ValidationFailsFirst ==
  \A j \in Jobs : result[j].error \in InputValidationErrors =>
    /\ ~analyzerCalled[j]
    /\ ~encoderCalled[j]
    /\ j \notin DOMAIN reservedMemory
    /\ pc[j] = "done" => status[j] = "failed"

\* C11: validateInputFile decides by the first failing check, in this order:
\* a missing file is "not found"; an existing file larger than maxFileSize is
\* too large (a size equal to maxFileSize passes); an extension outside mp4,
\* avi, mov, webm, mkv is an unsupported format; a file failing the integrity
\* check is invalid or corrupted; every other file is accepted.
C11_FirstFailingCheck ==
  applied.fn = "validateInputFile" =>
    LET f == applied.file
        expected ==
          CASE ~f.exists -> "Input file not found"
            [] f.exists /\ f.size > maxFileSize -> "File size exceeds maximum limit"
            [] f.exists /\ f.size <= maxFileSize
               /\ f.format \notin {"mp4", "avi", "mov", "webm", "mkv"}
                 -> "Unsupported video format"
            [] f.exists /\ f.size <= maxFileSize
               /\ f.format \in {"mp4", "avi", "mov", "webm", "mkv"}
               /\ ~validateVideoFile(f)
                 -> "Invalid or corrupted video file"
            [] OTHER -> "ok"
    IN  applied.out = expected

\* a file of exactly maxFileSize was validated and accepted
C11_Witness ==
  /\ applied.fn = "validateInputFile"
  /\ applied.file.size = maxFileSize
  /\ applied.out = "ok"

\* C18: calculateProcessingParameters returns the option's width, height and
\* frameRate whenever the option is present, 0 included, and the metadata's
\* only when it is absent; the bitrate is the option's when present and
\* otherwise floor((width * height / 1000) * multiplier) with multipliers
\* 0.5, 1.0, 1.5 and 2.0 for low, medium, high and ultra.
C18_OptionWhenPresent ==
  applied.fn = "calculateProcessingParameters" =>
    LET o == applied.options
        md == applied.metadata
        out == applied.out
        halves == CASE o.quality = "low" -> 1 [] o.quality = "medium" -> 2
                    [] o.quality = "high" -> 3 [] o.quality = "ultra" -> 4
    IN  /\ out.width = IF o.width # Absent THEN o.width ELSE md.width
        /\ out.height = IF o.height # Absent THEN o.height ELSE md.height
        /\ out.frameRate = IF o.frameRate # Absent THEN o.frameRate ELSE md.frameRate
        /\ out.bitrate = IF o.bitrate # Absent THEN o.bitrate
                         ELSE (out.width * out.height * halves) \div 2000

\* C19: at a fixed compression ratio the quality score does not decrease from
\* low to medium to high to ultra, and it is
\* clamp[0,100](baseScore - max(0, (1 - ratio) * 20)) with base scores 60, 75,
\* 85 and 95.
C19_QualityScoreMonotone ==
  applied.fn = "calculateQualityScore" =>
    LET cr == applied.compressionRatio
        out == applied.out
        base == [q \in Qualities |->
                   CASE q = "low" -> 60 [] q = "medium" -> 75
                     [] q = "high" -> 85 [] q = "ultra" -> 95]
        \* the clamped score, in units of 1/cr.den
        clamped(q) == Max(0, Min(100 * cr.den,
                                 base[q] * cr.den - Max(0, 20 * (cr.den - cr.num))))
    IN  /\ \A q \in Qualities : out[q].num * cr.den = clamped(q) * out[q].den
        /\ \A q \in Qualities : out[q].den = out["low"].den
        /\ out["low"].num <= out["medium"].num
        /\ out["medium"].num <= out["high"].num
        /\ out["high"].num <= out["ultra"].num

\* scores at ratio 1/2: 50, 65, 75, 85
C19_Witness ==
  /\ applied.fn = "calculateQualityScore"
  /\ applied.compressionRatio = Ratio(10, 20)
  /\ applied.out["low"] = Ratio(50, 1)
  /\ applied.out["ultra"] = Ratio(85, 1)

\* C20: calculateOptimalBitrate does not decrease with the pixel count at a
\* fixed tier nor with the tier at a fixed resolution; it is strictly larger
\* for 1920x1080 than for 1280x720 at medium and for high than for medium at
\* 1920x1080; it is positive for every resolution of at least 2000 pixels.
C20_OptimalBitrateMonotone ==
  applied.fn = "calculateOptimalBitrate" =>
    LET a == applied.a
        b == applied.b
    IN  /\ a[1] * a[2] <= b[1] * b[2]
             => \A q \in Qualities : applied.outA[q] <= applied.outB[q]
        /\ applied.outA["low"] <= applied.outA["medium"]
        /\ applied.outA["medium"] <= applied.outA["high"]
        /\ applied.outA["high"] <= applied.outA["ultra"]
        /\ a = <<1280, 720>> /\ b = <<1920, 1080>>
             => applied.outA["medium"] < applied.outB["medium"]
        /\ a = <<1920, 1080>> => applied.outA["medium"] < applied.outA["high"]
        /\ a[1] * a[2] >= 2000 => \A q \in Qualities : applied.outA[q] > 0

\* 1280x720 against 1920x1080: 921 and 2073 at medium
C20_Witness ==
  /\ applied.fn = "calculateOptimalBitrate"
  /\ applied.a = <<1280, 720>>
  /\ applied.b = <<1920, 1080>>
  /\ applied.outA["medium"] = 921
  /\ applied.outB["medium"] = 2073

C14_MergeTouchesFormatAndQualityOnly ==
  [][\A j \in Jobs :
       /\ pc[j] # "idle" => options'[j] = options[j]
       /\ pc'[j] \notin {"idle", "done"} =>
            LET o == options'[j]
                e == enhancedOptions'[j]
                r == enrichment'[j]
            IN  /\ e.width = o.width
                /\ e.height = o.height
                /\ e.bitrate = o.bitrate
                /\ e.frameRate = o.frameRate
                /\ e.outputFormat =
                     IF r.state = "ok" /\ r.suggestedFormat # ""
                        /\ r.suggestedFormat # o.outputFormat
                     THEN r.suggestedFormat ELSE o.outputFormat
                /\ e.quality =
                     IF r.state = "ok" /\ r.suggestedQuality # ""
                        /\ r.suggestedQuality # o.quality
                     THEN r.suggestedQuality ELSE o.quality]_vars

\* a merge replaced format and quality and kept a width of 3840
C14_Witness ==
  /\ enrichment[TheJob].state = "ok"
  /\ options[TheJob] = Options("mp4", "medium", 3840, Absent, Absent, Absent)
  /\ enhancedOptions[TheJob] = Options("webm", "high", 3840, Absent, Absent, Absent)

\* C15: merged options that would fail validation are rejected and the job
\* is processed with the caller's options; a job whose own options are valid
\* never fails option validation because of the enrichment.
C15_InvalidMergeIsRejected ==
  \A j \in Jobs :
    /\ pc[j] \in {"validate_input", "metadata", "memory_checked", "executing", "returning"}
       /\ enrichment[j].state = "ok"
       /\ file[j].exists
       /\ validateProcessingOptions(
            enhanceOptionsWithAI(options[j], enrichment[j]),
            getVideoMetadata(file[j])) # "ok"
         => enhancedOptions[j] = options[j]
    /\ pc[j] = "returning"
       /\ validateProcessingOptions(options[j], getVideoMetadata(file[j])) = "ok"
         => result[j].error \notin OptionValidationErrors

\* C16: the events of a job are one jobCreated, one jobStarted, any number of
\* jobProgress, then at most one of jobCompleted, jobFailed and jobCancelled,
\* and nothing after it, under any interleaving with cancelJob.
C16_EventsWellFormed ==
  \A j \in Jobs :
    LET e == events[j]
    IN  /\ Len(e) >= 1 => e[1] = "jobCreated"
        /\ Len(e) >= 2 => e[2] = "jobStarted"
        /\ \A i \in 3..Len(e) :
             \/ e[i] = "jobProgress"
             \/ i = Len(e) /\ e[i] \in {"jobCompleted", "jobFailed", "jobCancelled"}
        /\ pc[j] = "done" =>
             e[Len(e)] \in {"jobCompleted", "jobFailed", "jobCancelled"}

\* C17: when processVideo has returned, the job's status is completed, failed
\* or cancelled, never queued or processing.
C17_ReturnsTerminal ==
  \A j \in Jobs :
    pc[j] = "done" => /\ status[j] \in {"completed", "failed", "cancelled"}
                      /\ status[j] \notin {"queued", "processing"}

\* a call returned for a job whose options were rejected
C17_Witness ==
  /\ pc[TheJob] = "done"
  /\ status[TheJob] = "failed"
  /\ result[TheJob].error = "Unsupported output format"
  /\ ~cancelRequested[TheJob]

C22_NewestFirst ==
  lastCall.op = "getAllJobs" =>
    LET out == lastCall.out
    IN  /\ { out[i] : i \in 1..Len(out) } = lastCall.tracked
        /\ Len(out) = Cardinality(lastCall.tracked)
        /\ \A a, b \in 1..Len(out) : a < b => out[a] > out[b]

\* C23: getProcessingStats reports successRate = 100 * completed / tracked,
\* and 0 when no job is tracked; totalJobs, completedJobs, failedJobs and
\* processingJobs are the numbers of tracked jobs in those statuses.
C23_StatsMatchJobs ==
  lastCall.op = "getProcessingStats" =>
    LET out == lastCall.out
    IN  /\ out.totalJobs = lastCall.tracked
        /\ out.completedJobs = lastCall.completed
        /\ out.failedJobs = lastCall.failed
        /\ out.processingJobs = lastCall.processing
        /\ IF lastCall.tracked = 0
             THEN out.successRate.num = 0
             ELSE out.successRate.num * lastCall.tracked
                    = 100 * lastCall.completed * out.successRate.den

\* C24: the processingId of the result that processVideo returns is the id of
\* the job the call created, on the success path and on every failure path.
C24_ProcessingIdIsJobId ==
  \A j \in Jobs : pc[j] = "done" => returned[j].processingId = JobId(j)

\* C27: cleanupOldJobs(maxAge) removes exactly the tracked jobs that are
\* completed, failed or cancelled and were created more than maxAge before
\* the call, removes no job that is queued, processing or younger, changes
\* no job, and returns the number of jobs it removed.
C27_CleanupRemovesOldTerminalJobs ==
  [][lastCall'.op = "cleanupOldJobs" /\ lastCall' # lastCall =>
       LET maxAge == lastCall'.maxAge
           removed == jobs \ jobs'
       IN  /\ jobs' \subseteq jobs
           /\ removed = { j \in jobs : /\ status[j] \in {"completed", "failed", "cancelled"}
                                       /\ now - createdAt[j] > maxAge }
           /\ \A j \in removed : status[j] \notin {"queued", "processing"}
           /\ lastCall'.out = Cardinality(removed)
           /\ UNCHANGED <<status, progress, jobError, options, createdAt, completedAt,
                          file, pc>>]_vars

\* a cleanup removed a finished job and kept an older job that was processing
C27_Witness ==
  /\ lastCall.op = "cleanupOldJobs"
  /\ lastCall.out = 1
  /\ lastCall.before = {1, 2}
  /\ jobs = {1}
  /\ status[1] = "processing"
  /\ status[2] = "failed"
  /\ createdAt[1] < createdAt[2]

\* C25: option validation runs before the memory check: a job whose input is
\* valid and whose options are invalid fails with the invalid-options error,
\* also when the source is larger than the memory available.
C25_OptionsBeforeMemory ==
  \A j \in Jobs :
    (/\ pc[j] = "returning"
     /\ validateInputFile(file[j]) = "ok"
     /\ validateProcessingOptions(enhancedOptions[j], getVideoMetadata(file[j])) # "ok")
      => result[j].error \in OptionValidationErrors

\* C26: validateVideoFile accepts a source only if its header carries the
\* signature of the container its extension claims; a non-empty file with a
\* supported extension whose header has no signature, or the signature of
\* another container, is rejected.
C26_SignatureMatchesExtension ==
  applied.fn = "validateVideoFile" =>
    LET f == applied.file
    IN  /\ applied.out => f.header = f.format
        /\ f.size > 0 /\ f.format \in supportedVideoExtensions /\ f.header # f.format
             => ~applied.out

\* C28: over a job's lifetime, with or without AI analysis and under any
\* interleaving with cancelJob, its progress stays within 0..100 and never
\* decreases.
C28_ProgressMonotone ==
  [][\A j \in Jobs : /\ progress'[j] \in 0..100
                     /\ progress'[j] >= progress[j]]_vars

\* a job that went through AI analysis and a cancel reached progress 100
C28_Witness ==
  /\ pc[TheJob] = "done"
  /\ useAI[TheJob]
  /\ cancelRequested[TheJob]
  /\ progress[TheJob] = 100

\* C29: after any sequence of reserveMemory, releaseMemory and cleanup calls,
\* a second reservation under a live id and a reservation of 0 included,
\* currentUsage is the sum of the amounts in the reservation map and is not
\* negative.
C29_UsageIsSumOfReservations ==
  /\ currentUsage = SumReserved(reservedMemory)
  /\ currentUsage >= 0

\* C30: a render job cancelled by DELETE while processing stays cancelled:
\* processRenderJob returns at its next cancellation check, never sets the
\* job completed or failed and never broadcasts job_completed for it,
\* wherever in the progress loop the cancel arrives; a DELETE on a job that
\* is not processing leaves its status unchanged.
C30_CancelledRenderStaysCancelled ==
  [][/\ \A r \in RenderJobIds :
          /\ renderJobs[r].status = "cancelled" =>
               /\ renderJobs'[r].status = "cancelled"
               /\ renderPc'[r] # renderPc[r] => renderPc'[r].at = "done"
          /\ renderJobs'[r].status = "cancelled" =>
               \A i \in 1..Len(broadcasts'[r]) :
                 broadcasts'[r][i] \notin {"job_completed", "job_failed"}
     /\ lastCall'.op = "DELETE" /\ lastCall' # lastCall /\ lastCall'.pre # "processing"
          => renderJobs' = renderJobs]_vars

\* a job cancelled in the middle of the loop: processRenderJob has returned
\* after one more progress message
C30_Witness ==
  \E r \in RenderJobIds :
    /\ renderJobs[r].status = "cancelled"
    /\ renderPc[r].at = "done"
    /\ renderJobs[r].progress = 50
    /\ broadcasts[r][Len(broadcasts[r])] = "job_progress"

====
